---- MODULE Spec2Model ----
(***************************************************************************)
(* Model of the three entry points of the knowledge base:                  *)
(*   ingest_documents.py  (batch ingestion script, "b" variables)          *)
(*   app.py               (chat UI: chat handler and upload handler)       *)
(*   query_knowledge_base.py (interactive query loop, "q" variables)       *)
(* sharing one process environment and one Pinecone vector store.          *)
(***************************************************************************)
EXTENDS Integers, Sequences, FiniteSets, TLC

\* ---------------------------------------------------------------- bounds
MaxLen == 1        \* longest chat message / input line, in characters
MaxFiles == 1      \* longest list of uploaded paths
MaxRuns == 2       \* runs of the batch script
MaxUploads == 1    \* upload requests served by the UI
MaxLines == 2      \* lines read by the interactive loop

\* ------------------------------------------------------------- constants
NoneVal == "None"                       \* Python None
DefaultIndexName == "de-knowledge-base"
CustomIndexName == "custom-index"
IndexNames == {DefaultIndexName, CustomIndexName}

Whitespace == {" "}
Chars == {" ", "a"}
Paths == {"a.txt", "missing.txt"}
ExistingFiles == {"a.txt"}              \* files present on disk
DocsDirFiles == <<"a.txt">>              \* *.txt files of documents/

RECURSIVE SeqsUpTo(_, _)
SeqsUpTo(S, n) ==
    IF n = 0 THEN {<<>>}
    ELSE LET shorter == SeqsUpTo(S, n - 1)
         IN shorter \cup {Append(s, c) : s \in {t \in shorter : Len(t) = n - 1}, c \in S}

Strings == SeqsUpTo(Chars, MaxLen)

\* str.strip(): drop leading and trailing whitespace
RECURSIVE LStrip(_)
LStrip(s) ==
    IF s = <<>> THEN s
    ELSE IF Head(s) \in Whitespace THEN LStrip(Tail(s)) ELSE s

RECURSIVE RStrip(_)
RStrip(s) ==
    IF s = <<>> THEN s
    ELSE IF s[Len(s)] \in Whitespace THEN RStrip(SubSeq(s, 1, Len(s) - 1)) ELSE s

Strip(s) == RStrip(LStrip(s))

\* Python truthiness of a str
Truthy(s) == Len(s) > 0

\* every subsequence of s (files a reader may skip are left out)
RECURSIVE SubSeqs(_)
SubSeqs(s) ==
    IF s = <<>> THEN {<<>>}
    ELSE LET rest == SubSeqs(Tail(s))
         IN rest \cup {<<Head(s)>> \o r : r \in rest}

\* upload inputs handed to ingest_files: None, a str, a Path, or a list
UploadInputs ==
    {[kind |-> "none"]}
    \cup {[kind |-> "str", path |-> p] : p \in Paths}
    \cup {[kind |-> "path", path |-> p] : p \in Paths}
    \cup {[kind |-> "list", paths |-> l] : l \in SeqsUpTo(Paths, MaxFiles)}

\* ------------------------------------------------------------------ state
VARIABLES
    env,          \* process environment: the two credentials and the index name
    collections,  \* vector store: index name -> number of collections of that name
    records,      \* vector store: the index records
    bpc, bRun, bName, bSeen, bCreated, bDocs, bi, bCalls, bHandles, bOut, bErr, bExit,
    bReported,
    apc, aName, aHandles,
    chatMsg, chatInvoked, chatResp,
    upc, uRun, upFiles, upPaths, upDocs, ui, upCalls, upStatus, upReported,
    qpc, qName, qHandles, qCalls, q, nLines, nNonBlank, nQueries, nAnswers, qOut, qExc

storeVars == <<collections, records>>
batchVars == <<bpc, bRun, bName, bSeen, bCreated, bDocs, bi, bCalls, bHandles, bOut, bErr,
               bExit, bReported>>
appVars == <<apc, aName, aHandles>>
chatVars == <<chatMsg, chatInvoked, chatResp>>
uploadVars == <<upc, uRun, upFiles, upPaths, upDocs, ui, upCalls, upStatus, upReported>>
loopVars == <<qpc, qName, qHandles, qCalls, q, nLines, nNonBlank, nQueries, nAnswers, qOut,
              qExc>>
vars == <<env, storeVars, batchVars, appVars, chatVars, uploadVars, loopVars>>

Envs == [openaiKey : BOOLEAN, pineconeKey : BOOLEAN,
         indexName : {NoneVal} \cup IndexNames]

\* os.getenv("PINECONE_INDEX_NAME", default)
GetenvIndexName(default) ==
    IF env.indexName = NoneVal THEN default ELSE env.indexName

Init ==
    /\ env \in Envs
    /\ collections \in [IndexNames -> {0, 1}]
    /\ records = {}
    /\ bpc = "init" /\ bRun = 0 /\ bName = NoneVal /\ bSeen = FALSE /\ bCreated = 0
    /\ bDocs = <<>> /\ bi = 0 /\ bCalls = {} /\ bHandles = {} /\ bOut = {}
    /\ bErr = "none" /\ bExit = -1 /\ bReported = -1
    /\ apc = "init" /\ aName = NoneVal /\ aHandles = {}
    /\ chatMsg = <<>> /\ chatInvoked = FALSE /\ chatResp = "none"
    /\ upc = "idle" /\ uRun = 0 /\ upFiles = [kind |-> "none"] /\ upPaths = <<>>
    /\ upDocs = <<>> /\ ui = 0 /\ upCalls = {} /\ upStatus = "none" /\ upReported = -1
    /\ qpc = "init" /\ qName = NoneVal /\ qHandles = {} /\ qCalls = {}
    /\ q = <<>> /\ nLines = 0 /\ nNonBlank = 0 /\ nQueries = 0 /\ nAnswers = 0
    /\ qOut = {} /\ qExc = "none"

\* ------------------------------------------------------ external services
\* pc.list_indexes().names()
ListedNames == {n \in IndexNames : collections[n] > 0}

\* the vector store holds a collection of that name
IndexExists(name) == name \in IndexNames /\ collections[name] > 0

\* Upsert had the store keyed records by document: a second ingestion of a
\* document would replace its earlier record
UpsertByDocument(recs, rec) ==
    {r \in recs : ~(r.index = rec.index /\ r.doc = rec.doc)} \cup {rec}

\* VectorStoreIndex.from_documents writes one record per document under a
\* fresh identifier; records already stored are left alone
Upsert(recs, rec) == recs \cup {rec}

\* outcomes of query_engine.query(text) against index `name`
QueryOutcomes(name) ==
    IF IndexExists(name) /\ env.openaiKey THEN {"answer", "error"} ELSE {"error"}

\* ------------------------------------------- ingest_documents.py (batch)
\* MainExcept had the except branch printed the error without re-raising
MainExceptSwallowed(msg) ==
    /\ bpc' = "exit0"
    /\ bErr' = msg
    /\ bOut' = bOut \cup {"error"}
    /\ bExit' = 0

\* main(), the except branch: print the error and re-raise; the uncaught
\* exception ends the process with a non-zero exit code
MainExcept(msg) ==
    /\ bpc' = "exit1"
    /\ bErr' = msg
    /\ bOut' = bOut \cup {"error"}
    /\ bExit' = 1

\* NeedsCreate had setup_pinecone created the index without looking
NeedsCreateAlways(name, names) == TRUE

\* setup_pinecone(), the test that decides whether the index is created
NeedsCreate(name, names) == name \notin names

\* main() is entered: banner printed, nothing done yet
BStart ==
    /\ bpc \in {"init", "exit0", "exit1"}
    /\ bRun < MaxRuns
    /\ bRun' = bRun + 1
    /\ bpc' = "setup"
    /\ bName' = NoneVal /\ bSeen' = FALSE
    /\ bDocs' = <<>> /\ bi' = 0 /\ bReported' = -1
    /\ bCalls' = {} /\ bHandles' = {} /\ bOut' = {} /\ bErr' = "none" /\ bExit' = -1
    /\ UNCHANGED bCreated
    /\ UNCHANGED <<env, storeVars, appVars, chatVars, uploadVars, loopVars>>

\* setup_pinecone() up to the listing of the indexes
BSetupList ==
    /\ bpc = "setup"
    /\ IF ~env.pineconeKey
       THEN \* Pinecone(api_key=None) refuses to build a client
            /\ MainExcept("no_pinecone_key")
            /\ UNCHANGED <<bName, bSeen, bCalls, bHandles>>
       ELSE /\ bName' = env.indexName      \* os.getenv with no default
            /\ bCalls' = bCalls \cup {"list_indexes"}
            /\ bSeen' = (env.indexName \in ListedNames)
            /\ IF NeedsCreate(env.indexName, ListedNames)
               THEN /\ bpc' = "create"
                    /\ bHandles' = bHandles \cup {"pinecone"}
               ELSE /\ bpc' = "configure"
                    /\ bHandles' = bHandles \cup {"pinecone", "index"}
            /\ UNCHANGED <<bOut, bErr, bExit>>
    /\ UNCHANGED <<bRun, bCreated, bDocs, bi, bReported>>
    /\ UNCHANGED <<env, storeVars, appVars, chatVars, uploadVars, loopVars>>

\* pc.create_index(name=...): name=None is rejected, and the service
\* refuses a second collection of an existing name
CreateRejected(name) ==
    IF name \notin IndexNames THEN "invalid_name"
    ELSE IF IndexExists(name) THEN "conflict"
    ELSE "none"

\* setup_pinecone(), pc.create_index(...) and the return of pc.Index(name)
BSetupCreate ==
    /\ bpc = "create"
    /\ bCalls' = bCalls \cup {"create_index"}
    /\ IF CreateRejected(bName) # "none"
       THEN /\ MainExcept(CreateRejected(bName))
            /\ UNCHANGED <<collections, bCreated, bHandles>>
       ELSE \/ /\ MainExcept("provider")            \* the request fails
               /\ UNCHANGED <<collections, bCreated, bHandles>>
            \/ /\ collections' = [collections EXCEPT ![bName] = @ + 1]
               /\ bCreated' = bCreated + 1
               /\ bHandles' = bHandles \cup {"index"}
               /\ bpc' = "configure"
               /\ UNCHANGED <<bOut, bErr, bExit>>
    /\ UNCHANGED <<bRun, bName, bSeen, bDocs, bi, bReported, records>>
    /\ UNCHANGED <<env, appVars, chatVars, uploadVars, loopVars>>

\* configure_llama_index(): with no OpenAI key the constructors either
\* refuse or build a client that fails on first use (library dependent)
BConfigure ==
    /\ bpc = "configure"
    /\ \/ /\ ~env.openaiKey
          /\ MainExcept("no_openai_key")
          /\ UNCHANGED bHandles
       \/ /\ bHandles' = bHandles \cup {"embed_model", "llm"}
          /\ bpc' = "load"
          /\ UNCHANGED <<bOut, bErr, bExit>>
    /\ UNCHANGED <<bRun, bName, bSeen, bCreated, bDocs, bi, bCalls, bReported>>
    /\ UNCHANGED <<env, storeVars, appVars, chatVars, uploadVars, loopVars>>

\* load_documents(): the directory may be missing, may hold no .txt file,
\* and the reader leaves out a file it cannot read
BLoad ==
    /\ bpc = "load"
    /\ bCalls' = bCalls \cup {"reader"}
    /\ \/ /\ MainExcept("no_documents_dir")
          /\ UNCHANGED bDocs
       \/ /\ MainExcept("no_files_found")
          /\ UNCHANGED bDocs
       \/ /\ \E docs \in SubSeqs(DocsDirFiles) : bDocs' = docs
          /\ bpc' = "ingest"
          /\ UNCHANGED <<bOut, bErr, bExit>>
    /\ UNCHANGED <<bRun, bName, bSeen, bCreated, bi, bHandles, bReported>>
    /\ UNCHANGED <<env, storeVars, appVars, chatVars, uploadVars, loopVars>>

\* ingest_documents(): one document embedded and written
BIngestStep ==
    /\ bpc = "ingest"
    /\ bi < Len(bDocs)
    /\ \/ /\ env.openaiKey /\ IndexExists(bName)
          /\ bCalls' = bCalls \cup {"embed", "upsert"}
          /\ records' = Upsert(records,
                [id |-> <<"batch", bRun, bi + 1>>, index |-> bName, doc |-> bDocs[bi + 1]])
          /\ bi' = bi + 1
          /\ UNCHANGED <<bpc, bOut, bErr, bExit>>
       \/ /\ bCalls' = bCalls \cup {"embed"}
          /\ MainExcept("ingest_failed")
          /\ UNCHANGED <<records, bi>>
    /\ UNCHANGED <<bRun, bName, bSeen, bCreated, bDocs, bHandles, bReported, collections>>
    /\ UNCHANGED <<env, appVars, chatVars, uploadVars, loopVars>>

\* ingest_documents() returns; main() prints the summary and returns
BSummary ==
    /\ bpc = "ingest"
    /\ bi = Len(bDocs)
    /\ bOut' = bOut \cup {"ingested", "summary"}
    /\ bReported' = Len(bDocs)
    /\ bpc' = "exit0"
    /\ bExit' = 0
    /\ UNCHANGED <<bRun, bName, bSeen, bCreated, bDocs, bi, bCalls, bHandles, bErr>>
    /\ UNCHANGED <<env, storeVars, appVars, chatVars, uploadVars, loopVars>>

\* ------------------------------------------------------- app.py (chat UI)
\* module body: configuration, credential checks, client handles
AppStartup ==
    /\ apc = "init"
    /\ IF ~env.openaiKey \/ ~env.pineconeKey
       THEN /\ apc' = "failed"                  \* RuntimeError("... not set")
            /\ UNCHANGED <<aName, aHandles>>
       ELSE /\ apc' = "ready"
            /\ aName' = GetenvIndexName(DefaultIndexName)
            /\ aHandles' = {"embed_model", "llm", "pinecone", "index"}
    /\ UNCHANGED <<env, storeVars, batchVars, chatVars, uploadVars, loopVars>>

\* chat(): the test for a message that gets the guidance text
ChatRejects(message) == ~Truthy(message)

\* chat(message, history)
Chat ==
    /\ apc = "ready"
    /\ \E message \in Strings :
        /\ chatMsg' = message
        /\ IF ChatRejects(message)
           THEN /\ chatInvoked' = FALSE
                /\ chatResp' = "guidance"
           ELSE /\ chatInvoked' = TRUE
                /\ \E r \in QueryOutcomes(aName) : chatResp' = r
    /\ UNCHANGED <<env, storeVars, batchVars, appVars, uploadVars, loopVars>>

\* os.path.exists
Exists(p) == p \in ExistingFiles

\* ingest_files(): `not files`
NoFiles(files) ==
    \/ files.kind = "none"
    \/ files.kind = "list" /\ files.paths = <<>>

\* ingest_files(): the list of paths handed to the reader
FilePaths(files) ==
    IF files.kind \in {"str", "path"} THEN <<files.path>>
    ELSE SelectSeq(files.paths, Exists)

\* ingest_files() up to the return of the reader
IngestFilesBegin ==
    /\ apc = "ready"
    /\ upc \in {"idle", "done"}
    /\ uRun < MaxUploads
    /\ uRun' = uRun + 1
    /\ ui' = 0
    /\ upReported' = -1
    /\ \E files \in UploadInputs :
        /\ upFiles' = files
        /\ IF NoFiles(files)
           THEN /\ upStatus' = "no_file" /\ upc' = "done"
                /\ upPaths' = <<>> /\ upDocs' = <<>> /\ upCalls' = {}
           ELSE /\ upPaths' = FilePaths(files)
                /\ IF FilePaths(files) = <<>>
                   THEN /\ upStatus' = "no_valid" /\ upc' = "done"
                        /\ upDocs' = <<>> /\ upCalls' = {}
                   ELSE /\ upCalls' = {"reader"}
                        /\ IF \E i \in 1..Len(FilePaths(files)) : ~Exists(FilePaths(files)[i])
                           THEN \* the reader raises on a path that is no file
                                /\ upStatus' = "error" /\ upc' = "done"
                                /\ upDocs' = <<>>
                           ELSE /\ \E docs \in SubSeqs(FilePaths(files)) : upDocs' = docs
                                /\ upStatus' = "none" /\ upc' = "ingest"
    /\ UNCHANGED <<env, storeVars, batchVars, appVars, chatVars, loopVars>>

\* ingest_files(): one document embedded and written by from_documents
UIngestStep ==
    /\ upc = "ingest"
    /\ ui < Len(upDocs)
    /\ \/ /\ IndexExists(aName)
          /\ upCalls' = upCalls \cup {"embed", "upsert"}
          /\ records' = Upsert(records,
                [id |-> <<"ui", uRun, ui + 1>>, index |-> aName, doc |-> upDocs[ui + 1]])
          /\ ui' = ui + 1
          /\ UNCHANGED <<upc, upStatus>>
       \/ /\ upCalls' = upCalls \cup {"embed"}
          /\ upStatus' = "error" /\ upc' = "done"
          /\ UNCHANGED <<records, ui>>
    /\ UNCHANGED <<uRun, upFiles, upPaths, upDocs, upReported, collections>>
    /\ UNCHANGED <<env, batchVars, appVars, chatVars, loopVars>>

\* UIngestFinish had the handler embedded a probe text before returning
UIngestFinishProbing ==
    /\ upc = "ingest"
    /\ ui = Len(upDocs)
    /\ upStatus' = "ingested"
    /\ upReported' = Len(upDocs)
    /\ upc' = "done"
    /\ upCalls' = upCalls \cup {"embed"}
    /\ UNCHANGED <<uRun, upFiles, upPaths, upDocs, ui>>
    /\ UNCHANGED <<env, storeVars, batchVars, appVars, chatVars, loopVars>>

\* ingest_files(): from_documents returned, the status text is returned
UIngestFinish ==
    /\ upc = "ingest"
    /\ ui = Len(upDocs)
    /\ upStatus' = "ingested"
    /\ upReported' = Len(upDocs)
    /\ upc' = "done"
    /\ UNCHANGED <<uRun, upFiles, upPaths, upDocs, ui, upCalls>>
    /\ UNCHANGED <<env, storeVars, batchVars, appVars, chatVars, loopVars>>

\* ------------------------------------- query_knowledge_base.py (the loop)
\* module body before the loop
LoopStartup ==
    /\ qpc = "init"
    /\ IF ~env.pineconeKey
       THEN /\ qpc' = "failed"                  \* Pinecone(api_key=None) refuses
            /\ UNCHANGED <<qName, qHandles>>
       ELSE /\ qName' = GetenvIndexName(DefaultIndexName)
            /\ \/ /\ ~env.openaiKey
                  /\ qpc' = "failed"
                  /\ qHandles' = {"pinecone", "index"}
               \/ /\ qpc' = "waiting"
                  /\ qHandles' = {"pinecone", "index", "embed_model", "llm"}
    /\ UNCHANGED <<qCalls, q, nLines, nNonBlank, nQueries, nAnswers, qOut, qExc>>
    /\ UNCHANGED <<env, storeVars, batchVars, appVars, chatVars, uploadVars>>

\* LoopSkips had the loop tested `not q`
LoopSkipsEmptyOnly(line) == ~Truthy(line)

\* the loop: `not q.strip()`
LoopSkips(line) == ~Truthy(Strip(line))

\* q = input("Q: ") returns a line
LoopReadLine ==
    /\ qpc = "waiting"
    /\ nLines < MaxLines
    /\ nLines' = nLines + 1
    /\ \E line \in Strings :
        /\ nNonBlank' = IF Truthy(Strip(line)) THEN nNonBlank + 1 ELSE nNonBlank
        /\ IF LoopSkips(line)
           THEN UNCHANGED <<qpc, q, nQueries, qCalls>>
           ELSE /\ qpc' = "querying"
                /\ q' = line
                /\ nQueries' = nQueries + 1
                /\ qCalls' = qCalls \cup {"query"}
    /\ UNCHANGED <<qName, qHandles, nAnswers, qOut, qExc>>
    /\ UNCHANGED <<env, storeVars, batchVars, appVars, chatVars, uploadVars>>

\* qa.query(q) returns and the answer is printed
LoopQueryReturn ==
    /\ qpc = "querying"
    /\ "answer" \in QueryOutcomes(qName)
    /\ nAnswers' = nAnswers + 1
    /\ qpc' = "waiting"
    /\ q' = <<>>
    /\ UNCHANGED <<qName, qHandles, qCalls, nLines, nNonBlank, nQueries, qOut, qExc>>
    /\ UNCHANGED <<env, storeVars, batchVars, appVars, chatVars, uploadVars>>

\* the except clause of the loop: what it does with an exception
LoopExcept(exc) ==
    /\ qExc' = exc
    /\ IF exc \in {"EOFError", "KeyboardInterrupt"}
       THEN /\ qOut' = qOut \cup {"exiting"}
            /\ qpc' = "exited"
       ELSE /\ qOut' = qOut \cup {"traceback"}    \* not caught: the process dies
            /\ qpc' = "crashed"

\* qa.query(q) raises
LoopQueryRaise ==
    /\ qpc = "querying"
    /\ "error" \in QueryOutcomes(qName)
    /\ LoopExcept("Exception")
    /\ UNCHANGED <<qName, qHandles, qCalls, q, nLines, nNonBlank, nQueries, nAnswers>>
    /\ UNCHANGED <<env, storeVars, batchVars, appVars, chatVars, uploadVars>>

\* input() meets end-of-input
LoopEOF ==
    /\ qpc = "waiting"
    /\ LoopExcept("EOFError")
    /\ UNCHANGED <<qName, qHandles, qCalls, q, nLines, nNonBlank, nQueries, nAnswers>>
    /\ UNCHANGED <<env, storeVars, batchVars, appVars, chatVars, uploadVars>>

\* Ctrl+C while waiting for input or while a query runs
LoopInterrupt ==
    /\ qpc \in {"waiting", "querying"}
    /\ LoopExcept("KeyboardInterrupt")
    /\ UNCHANGED <<qName, qHandles, qCalls, q, nLines, nNonBlank, nQueries, nAnswers>>
    /\ UNCHANGED <<env, storeVars, batchVars, appVars, chatVars, uploadVars>>

\* ---------------------------------------------------------- specification
Next ==
    \/ BStart \/ BSetupList \/ BSetupCreate \/ BConfigure \/ BLoad
    \/ BIngestStep \/ BSummary
    \/ AppStartup \/ Chat \/ IngestFilesBegin \/ UIngestStep \/ UIngestFinish
    \/ LoopStartup \/ LoopReadLine \/ LoopQueryReturn \/ LoopQueryRaise
    \/ LoopEOF \/ LoopInterrupt

Spec == Init /\ [][Next]_vars

\* the batch script alone
NextBatch ==
    \/ BStart \/ BSetupList \/ BSetupCreate \/ BConfigure \/ BLoad
    \/ BIngestStep \/ BSummary

SpecBatch == Init /\ [][NextBatch]_vars

\* the two ingestion paths: the batch script and the upload handler
NextIngest ==
    \/ BStart \/ BSetupList \/ BSetupCreate \/ BConfigure \/ BLoad
    \/ BIngestStep \/ BSummary
    \/ AppStartup \/ IngestFilesBegin \/ UIngestStep \/ UIngestFinish

SpecIngest == Init /\ [][NextIngest]_vars

\* the interactive query tool alone
NextLoop ==
    \/ LoopStartup \/ LoopReadLine \/ LoopQueryReturn \/ LoopQueryRaise
    \/ LoopEOF \/ LoopInterrupt

SpecLoop == Init /\ [][NextLoop]_vars

\* ------------------------------------------------------------------ claims
Blank(s) == Strip(s) = <<>>

\* C1: a query text that is empty or only whitespace never reaches the query
\* engine in either front end, and the chat handler answers it with the
\* guidance message.
C1_BlankQueryMakesNoCall ==
    /\ (chatResp # "none" /\ Blank(chatMsg)) =>
            (~chatInvoked /\ chatResp = "guidance")
    /\ qpc = "querying" => ~Blank(q)

\* the paths of an upload input that exist on disk
ExistingOf(files) ==
    IF files.kind = "none" THEN {}
    ELSE IF files.kind = "list"
         THEN {files.paths[i] : i \in {j \in 1..Len(files.paths) : Exists(files.paths[j])}}
         ELSE {p \in {files.path} : Exists(p)}

\* C2: paths that do not exist are filtered out before the reader runs, and
\* an upload with no existing file ends with a guidance status, the reader,
\* the embedding provider and the vector index not having been called.
C2_MissingFilesFiltered ==
    /\ upc \in {"ingest", "done"} =>
            \A i \in 1..Len(upPaths) : Exists(upPaths[i])
    /\ (upc = "done" /\ ExistingOf(upFiles) = {}) =>
            (upStatus \in {"no_file", "no_valid"} /\ upCalls = {})

SetupErrors == {"no_pinecone_key", "invalid_name", "conflict", "provider"}

\* C3: over successive runs of setup_pinecone with one index name, no name
\* ever has more than one collection, create_index is issued only by a call
\* whose listing did not hold the name, a call whose listing held the name
\* does not raise, and once a call has returned exactly one collection of
\* the name exists.
C3_SetupPineconeIdempotent ==
    /\ \A n \in IndexNames : collections[n] <= 1
    /\ bCreated <= 1
    /\ (bpc = "create" \/ "create_index" \in bCalls) => ~bSeen
    /\ bSeen => bErr \notin SetupErrors
    /\ "index" \in bHandles => (bName \in IndexNames /\ collections[bName] = 1)

\* a second call found the index the first call created, and returned
C3_Witness ==
    /\ bRun = 2 /\ bCreated = 1 /\ bSeen /\ "index" \in bHandles
    /\ "create_index" \notin bCalls

\* C4: a question whose query raises does not end the interactive loop: no
\* uncaught error is printed and the loop does not die.
C4_QueryFailureKeepsLoop ==
    /\ qpc # "crashed"
    /\ "traceback" \notin qOut
    /\ qExc = "Exception" => qpc \in {"waiting", "querying"}

\* C5: with a required credential absent, no entry point constructs a client
\* handle or makes an external call, and none gets past its startup.
C5_MissingCredentialFailsFast ==
    (~env.openaiKey \/ ~env.pineconeKey) =>
        /\ bHandles = {} /\ bCalls = {}
        /\ aHandles = {} /\ upCalls = {} /\ ~chatInvoked
        /\ qHandles = {} /\ qCalls = {}
        /\ bpc \in {"init", "setup", "exit1"}
        /\ apc \in {"init", "failed"}
        /\ qpc \in {"init", "failed"}

\* records written by one ingestion run
WrittenBy(proc, run) == {r \in records : r.id[1] = proc /\ r.id[2] = run}

\* C6: an ingestion of no documents reports a count of 0 and has called
\* neither the embedding provider nor the vector index, in the batch script
\* and in the upload handler.
C6_EmptyIngestMakesNoCall ==
    /\ (bpc = "exit0" /\ bDocs = <<>>) =>
            /\ bReported = 0
            /\ "embed" \notin bCalls /\ "upsert" \notin bCalls
            /\ WrittenBy("batch", bRun) = {}
    /\ (upStatus = "ingested" /\ upDocs = <<>>) =>
            /\ upReported = 0
            /\ "embed" \notin upCalls /\ "upsert" \notin upCalls
            /\ WrittenBy("ui", uRun) = {}

\* both paths have completed an ingestion of no documents
C6_Witness ==
    /\ bpc = "exit0" /\ bDocs = <<>> /\ bReported = 0
    /\ upStatus = "ingested" /\ upDocs = <<>> /\ upReported = 0

\* C7: main runs setup_pinecone, configuration, loading, ingestion and the
\* summary in that order; the summary is printed only after every step has
\* completed and then the exit code is 0; a step that raises has its message
\* printed and the exit code is non-zero.
C7_BatchOrderAndExit ==
    /\ ({"embed_model", "llm"} \cap bHandles # {}) => "index" \in bHandles
    /\ "reader" \in bCalls => {"index", "embed_model", "llm"} \subseteq bHandles
    /\ (bDocs # <<>> \/ {"embed", "upsert"} \cap bCalls # {} \/ WrittenBy("batch", bRun) # {})
            => "reader" \in bCalls
    /\ "summary" \in bOut =>
            /\ bi = Len(bDocs) /\ bReported = Len(bDocs)
            /\ Cardinality(WrittenBy("batch", bRun)) = Len(bDocs)
            /\ "reader" \in bCalls
            /\ bErr = "none" /\ "error" \notin bOut
    /\ bExit = 0 <=> "summary" \in bOut
    /\ bErr # "none" <=> bExit = 1
    /\ bErr # "none" => ("error" \in bOut /\ bpc = "exit1")
    /\ bpc \in {"exit0", "exit1"} <=> bExit # -1

\* a run that loaded and ingested a document and exited 0
C7_Witness ==
    /\ bpc = "exit0" /\ bExit = 0 /\ "summary" \in bOut
    /\ Len(bDocs) = 1 /\ WrittenBy("batch", bRun) # {}

\* C8: every non-blank line read has been passed to the query engine once
\* and answered before the next line is read, a blank line causes no query,
\* and end-of-input or an interrupt, while waiting or while a query runs,
\* prints the exit message and ends the loop with no uncaught error.
C8_LoopProcessesLinesInOrder ==
    /\ nQueries = nNonBlank
    /\ nNonBlank <= nLines
    /\ qpc = "waiting" => (nAnswers = nQueries /\ qExc = "none")
    /\ qpc = "querying" => (nAnswers = nQueries - 1 /\ ~Blank(q) /\ qExc = "none")
    /\ qExc \in {"EOFError", "KeyboardInterrupt"} =>
            (qpc = "exited" /\ "exiting" \in qOut /\ "traceback" \notin qOut)
    /\ qpc = "exited" => qExc \in {"EOFError", "KeyboardInterrupt"}

\* a blank line and an answered question were read, then input ended
C8_Witness ==
    /\ nLines = 2 /\ nNonBlank = 1 /\ nQueries = 1 /\ nAnswers = 1
    /\ qpc = "exited" /\ qExc = "EOFError"

\* C9: no step removes or replaces an index record, every write of a document
\* adds one record even when the document already has records, and a query
\* from the chat handler or the loop leaves the records as they are.
C9_IndexAppendOnly ==
    [][ /\ records \subseteq records'
        /\ (bi' = bi + 1 \/ ui' = ui + 1) =>
                Cardinality(records') = Cardinality(records) + 1
        /\ (chatVars' # chatVars \/ loopVars' # loopVars) => records' = records
      ]_vars

\* the batch script and the upload handler both wrote the same document to
\* the same index, and both front ends have run a query since
C9_Witness ==
    /\ \E r1 \in records, r2 \in records :
        /\ r1.id[1] = "batch" /\ r2.id[1] = "ui"
        /\ r1.doc = r2.doc /\ r1.index = r2.index
    /\ bpc = "exit0" /\ upStatus = "ingested"
    /\ chatInvoked /\ nAnswers > 0

\* C10: every entry point resolves the index name to the environment's value,
\* or to "de-knowledge-base" when it is unset, so all three use one name and
\* every record is written to it.
C10_OneIndexName ==
    LET expected == IF env.indexName = NoneVal THEN DefaultIndexName ELSE env.indexName
    IN /\ "list_indexes" \in bCalls => bName = expected
       /\ apc = "ready" => aName = expected
       /\ qHandles # {} => qName = expected
       /\ \A r \in records : r.index = expected

====
